---- MODULE Spec2Model ----
(***************************************************************************)
(* Model of docker-ram-dumper: the monitoring loop of main(), the tool     *)
(* installation and invocation helpers, and the threshold derivation.      *)
(*                                                                         *)
(* The model follows the current main package (src/unnamed/part_000, the    *)
(* one main_test.go exercises) and its helpers (src/unnamed/part_004);     *)
(* src/cmd/docker-ram-dumper/main.go is an earlier revision of the loop.   *)
(*                                                                         *)
(* float64 values are modelled as exact non-negative rationals extended    *)
(* with +Inf and NaN (rounding is not modelled): [n, d] with d > 0 is the  *)
(* reduced fraction n/d, [1, 0] is +Inf and [0, 0] is NaN.                 *)
(***************************************************************************)
EXTENDS Integers, Sequences, FiniteSets, TLC

\* ------------------------------------------------------------------ bounds
MaxLen == 4
MaxNum == 120
MaxDumps == 2
MaxPolls == 3
MaxDir == 2

\* ------------------------------------------------------- program constants
maxRetries == 5
DefaultTimeoutMinutes == 10
KiB == 1024

\* --------------------------------------------------------------- float64
RECURSIVE GCD(_, _)
GCD(a, b) == IF b = 0 THEN a ELSE GCD(b, a % b)

Norm(n, d) ==
    IF d = 0 THEN [n |-> IF n = 0 THEN 0 ELSE 1, d |-> 0]
    ELSE LET g == GCD(n, d) IN [n |-> n \div g, d |-> d \div g]

F(i) == [n |-> i, d |-> 1]
PosInf == [n |-> 1, d |-> 0]
NaN == [n |-> 0, d |-> 0]
IsNaN(a) == a.n = 0 /\ a.d = 0

FMul(a, b) == Norm(a.n * b.n, a.d * b.d)
FDiv(a, b) == Norm(a.n * b.d, a.d * b.n)
FGe(a, b) == ~IsNaN(a) /\ ~IsNaN(b) /\ a.n * b.d >= b.n * a.d
FLt(a, b) == ~IsNaN(a) /\ ~IsNaN(b) /\ a.n * b.d < b.n * a.d

\* --------------------------------------------------------------- strings
Digits == <<"0", "1", "2", "3", "4", "5", "6", "7", "8", "9">>
DigitVal(c) == CHOOSE i \in 0..9 : Digits[i + 1] = c
IsDigit(c) == \E i \in 1..10 : Digits[i] = c

LowerChar(c) == IF c = "M" THEN "m" ELSE IF c = "B" THEN "b" ELSE c
ToLower(s) == [i \in 1..Len(s) |-> LowerChar(s[i])]

HasSuffix(s, suf) ==
    /\ Len(s) >= Len(suf)
    /\ SubSeq(s, Len(s) - Len(suf) + 1, Len(s)) = suf

TrimSuffix(s, suf) ==
    IF HasSuffix(s, suf) THEN SubSeq(s, 1, Len(s) - Len(suf)) ELSE s

RECURSIVE DecVal(_)
DecVal(s) ==
    IF s = <<>> THEN 0
    ELSE 10 * DecVal(SubSeq(s, 1, Len(s) - 1)) + DigitVal(s[Len(s)])

\* strconv.ParseFloat on strings over the modelled alphabet (digits, "%",
\* "m", "b", "x"): a non-empty run of decimal digits parses to its value,
\* anything else is a syntax error and yields 0 together with the error.
ParseFloat(s) ==
    IF s # <<>> /\ \A i \in 1..Len(s) : IsDigit(s[i])
    THEN [val |-> F(DecVal(s)), err |-> FALSE]
    ELSE [val |-> F(0), err |-> TRUE]

\* ------------------------------------------------------ external outcomes
MiB == KiB * KiB

\* Docker stats answers (bytes) that the model draws a memory sample from.
Stats ==
    { [usage |-> 0, limit |-> 0],
      [usage |-> 1 * MiB, limit |-> 4 * MiB],
      [usage |-> 3 * MiB, limit |-> 4 * MiB],
      [usage |-> 3 * MiB, limit |-> 8 * MiB] }

\* Mutant: the used megabytes in place of the limit.
GetContainerMemoryUsageUsedMB(ok, st) ==
    IF ~ok THEN [pct |-> F(0), mb |-> 0, err |-> TRUE, used |-> 0]
    ELSE [pct |-> FMul(FDiv(F(st.usage), F(st.limit)), F(100)),
          mb  |-> (st.usage \div KiB) \div KiB,
          err |-> FALSE,
          used |-> (st.usage \div KiB) \div KiB]

\* helpers.GetContainerMemoryUsage: (percentage, limit in MB, error); used is
\* the usage in MB that it prints on the way.
GetContainerMemoryUsage(ok, st) ==
    IF ~ok THEN [pct |-> F(0), mb |-> 0, err |-> TRUE, used |-> 0]
    ELSE [pct |-> FMul(FDiv(F(st.usage), F(st.limit)), F(100)),
          mb  |-> (st.limit \div KiB) \div KiB,
          err |-> FALSE,
          used |-> (st.usage \div KiB) \div KiB]

Responses ==
    { GetContainerMemoryUsage(FALSE, [usage |-> 0, limit |-> 0]) } \cup
    { GetContainerMemoryUsage(TRUE, st) : st \in Stats }

\* Command output is abstracted to the set of markers it contains
\* (strings.Contains); "dashw" is "-writeable path", a substring of "nonw",
\* "Non-writeable path".
\* "nofile" is "No such file or directory". An output can carry
\* "-writeable path" without the capital-N marker, next to another marker.
ProbeOutputs == { {}, {"nofile"} }
AttachOutputs == { {}, {"unrec"}, {"objref"}, {"nonw", "dashw"}, {"unrec", "dashw"} }
DumpOutputs == { {} }

\* helpers.ExecInContainer: the output is empty whenever an error is returned.
ExecResults(outs) ==
    { [out |-> {}, err |-> TRUE] } \cup { [out |-> o, err |-> FALSE] : o \in outs }

Tools == {"procdump", "dotnet-dump", "dotMemory", "gcore"}
Thresholds ==
    { <<"5", "0", "%">>, <<"3", "M", "B">>, <<"x">>, <<"x", "m", "b">> }
Pids == {7}

NoSample == [n |-> 0 - 1, d |-> 1]
NoOutput == {"-"}
NoCmd == <<>>
NoProbe == [out |-> NoOutput, err |-> FALSE, exit |-> 0]
NoCall == [fn |-> "none"]

\* ------------------------------------------------------------------ state
VARIABLES
    threshold, monitor, dumpsCount, cleanup, dumpTool, installOnly, globalTimeout,
    timeoutGiven,
    isPercentage, thresholdValue, totalMemory, totalMemoryThreshold,
    pc, ctx, exitCode,
    dumpCounter, memUsagePercent, memoryUsageMB, usageMB, pid, output, err, retryCount,
    polls, firstSample, clean, did, attaches, transients, reason,
    exportsTried, exportsOk, cleanups, cmd, probe,
    dirCreated, sleeps,
    arg, ret

flags == <<threshold, monitor, dumpsCount, cleanup, dumpTool, installOnly, timeoutGiven>>
derived == <<isPercentage, thresholdValue, totalMemory, totalMemoryThreshold>>
locals == <<memUsagePercent, memoryUsageMB, usageMB, pid, output, err, retryCount>>
ghost == <<polls, firstSample, clean, did, attaches, transients, reason>>
\* History of the run: docker cp runs and those that succeeded, runs of
\* cleanupDumps, the last procdump command and the result of the probe that
\* installDumpTool is acting on.
tally == <<exportsTried, exportsOk, cleanups>>
issued == <<cmd, probe>>
\* A helper called on its own: its arguments and what it returned.
call == <<arg, ret>>
\* The container's dump directory /tmp/dumps has been created by the run and
\* not removed since; the number of sleeps of the outer loop that were
\* followed by another iteration.
trail == <<dirCreated, sleeps>>
aux == <<tally, issued, call, trail>>
vars == <<flags, globalTimeout, derived, pc, ctx, exitCode, dumpCounter, locals, ghost, aux>>

\* State after flag.Parse(): nothing but the options is set.
InitRun ==
    /\ isPercentage = FALSE
    /\ thresholdValue = F(0)
    /\ totalMemory = 0
    /\ totalMemoryThreshold = F(0)
    /\ pc = "parse"
    /\ ctx = "background"
    /\ exitCode = 0 - 1
    /\ dumpCounter = 0
    /\ memUsagePercent = NoSample
    /\ memoryUsageMB = 0
    /\ usageMB = 0
    /\ pid = 0
    /\ output = NoOutput
    /\ err = FALSE
    /\ retryCount = 0
    /\ polls = 0
    /\ firstSample = "none"
    /\ clean = TRUE
    /\ did = {}
    /\ attaches = 0
    /\ transients = 0
    /\ reason = ""
    /\ exportsTried = 0
    /\ exportsOk = 0
    /\ cleanups = 0
    /\ dirCreated = FALSE
    /\ sleeps = 0
    /\ cmd = NoCmd
    /\ probe = NoProbe

\* The options hold what the operator gave.
Init ==
    /\ threshold \in Thresholds
    /\ monitor \in BOOLEAN
    /\ dumpsCount \in 0..MaxDumps
    /\ cleanup \in BOOLEAN
    /\ dumpTool \in Tools
    /\ installOnly \in BOOLEAN
    /\ globalTimeout \in {0, 1}
    /\ timeoutGiven = globalTimeout
    /\ arg = NoCall
    /\ ret = NoCall
    /\ InitRun

\* Threshold strings for the derivation alone: every string of at most
\* MaxLen characters over Alphabet, in a single-shot procdump run.
Alphabet == {"0", "1", "2", "%", "m", "M", "b", "B", "x"}

RECURSIVE StringsUpTo(_)
StringsUpTo(k) ==
    IF k = 0 THEN { <<>> }
    ELSE LET shorter == StringsUpTo(k - 1) IN
         shorter \cup { Append(t, c) : t \in shorter, c \in Alphabet }

InitT ==
    /\ threshold \in StringsUpTo(MaxLen)
    /\ monitor = FALSE
    /\ dumpsCount = 1
    /\ cleanup = FALSE
    /\ dumpTool = "procdump"
    /\ installOnly = FALSE
    /\ globalTimeout = 0
    /\ timeoutGiven = globalTimeout
    /\ arg = NoCall
    /\ ret = NoCall
    /\ InitRun

\* ------------------------------------------------------------- threshold
\* main, lines 62-65
IsPercentageOf(t) == ~HasSuffix(ToLower(t), <<"m", "b">>)
ThresholdStr(t) == TrimSuffix(TrimSuffix(ToLower(t), <<"%">>), <<"m", "b">>)

ParseThreshold ==
    /\ pc = "parse"
    /\ isPercentage' = IsPercentageOf(threshold)
    /\ thresholdValue' = ParseFloat(ThresholdStr(threshold)).val
    /\ pc' = "installOnly"
    /\ UNCHANGED <<flags, aux, globalTimeout, totalMemory, totalMemoryThreshold, ctx,
                   exitCode, dumpCounter, locals, ghost>>

\* Mutant: the percentage form without the division by 100.
AbsoluteThresholdUnscaled(isPct, value, total) ==
    IF isPct THEN FMul(F(total), value) ELSE value

\* Mutant: the MB form as a fraction instead of a percentage.
PercentThresholdFraction(isPct, value, total) ==
    IF isPct THEN value ELSE FDiv(value, F(total))

\* main, lines 103-109
AbsoluteThreshold(isPct, value, total) ==
    IF isPct THEN FDiv(FMul(F(total), value), F(100)) ELSE value

PercentThreshold(isPct, value, total) ==
    IF isPct THEN value ELSE FMul(FDiv(value, F(total)), F(100))

\* ------------------------------------------------------------ termination
\* Mutant: a return that skips the deferred cleanup.
ReturnPcWithoutCleanup == "closeIdle"

\* A return from main runs the deferred calls, last registered first: those
\* of lines 89-92 when cleanup is set, then the one of line 75.
ReturnPc == IF cleanup THEN "killProcess" ELSE "closeIdle"

\* main, lines 77-87: install-only mode starts the install step right away.
EnterInstallOnly ==
    /\ pc = "installOnly"
    /\ installOnly
    /\ pc' = "probe"
    /\ did' = did \cup {"install"}
    /\ UNCHANGED <<flags, aux, globalTimeout, derived, ctx, exitCode, dumpCounter, locals,
                   polls, firstSample, clean, attaches, transients, reason>>

\* main, lines 78, 89-92: monitoring mode goes on to the host directory.
SkipInstallOnly ==
    /\ pc = "installOnly"
    /\ ~installOnly
    /\ pc' = "mkdirHost"
    /\ UNCHANGED <<flags, aux, globalTimeout, derived, ctx, exitCode, dumpCounter, locals, ghost>>

\* main, lines 94-99
MkdirHost ==
    /\ pc = "mkdirHost"
    /\ \E ok \in BOOLEAN :
        IF ok
        THEN /\ pc' = "startup"
             /\ UNCHANGED <<clean, reason>>
        ELSE /\ pc' = ReturnPc
             /\ clean' = FALSE
             /\ reason' = "hostMkdir"
    /\ UNCHANGED <<flags, aux, globalTimeout, derived, ctx, exitCode, dumpCounter, locals,
                   polls, firstSample, did, attaches, transients>>

\* Mutant: the timeout is used as given, without the default.
EffectiveTimeoutAsGiven(mon, timeout) == timeout

\* main, lines 101-123: the startup sample (its error is dropped), the two
\* threshold forms, the default deadline of monitoring mode and the context.
EffectiveTimeout(mon, timeout) ==
    IF mon /\ timeout = 0 THEN DefaultTimeoutMinutes ELSE timeout

StartupSample ==
    /\ pc = "startup"
    /\ \E r \in Responses :
        /\ totalMemory' = r.mb
        /\ totalMemoryThreshold' = AbsoluteThreshold(isPercentage, thresholdValue, r.mb)
        /\ thresholdValue' = PercentThreshold(isPercentage, thresholdValue, r.mb)
    /\ globalTimeout' = EffectiveTimeout(monitor, globalTimeout)
    /\ ctx' = IF globalTimeout' > 0 THEN "timer" ELSE "background"
    /\ dumpCounter' = 0
    /\ pc' = "loop"
    /\ UNCHANGED <<flags, aux, isPercentage, exitCode, locals, ghost>>

\* The timer of context.WithTimeout fires: ctx.Done() becomes ready.
DeadlineElapses ==
    /\ ctx = "timer"
    /\ pc \notin {"done", "exited"}
    /\ ctx' = "done"
    /\ UNCHANGED <<flags, aux, globalTimeout, derived, pc, exitCode, dumpCounter, locals, ghost>>

\* ------------------------------------------------------------- outer loop
\* Mutant: a select whose ctx.Done() case is never ready.
CtxDoneNever(c) == FALSE

\* main, line 127: the case <-ctx.Done() of the select is ready.
CtxDone(c) == c = "done"

\* main, lines 126-130
LoopDeadline ==
    /\ pc = "loop"
    /\ CtxDone(ctx)
    /\ pc' = ReturnPc
    /\ reason' = "deadline"
    /\ UNCHANGED <<flags, aux, globalTimeout, derived, ctx, exitCode, dumpCounter, locals,
                   polls, firstSample, clean, did, attaches, transients>>

\* Mutant: the comparison turned around.
BreachReversed(pct, thresholdPct, st, thresholdMB) == FGe(thresholdPct, pct)

\* Mutant: used megabytes against the absolute threshold.
BreachByMB(pct, thresholdPct, st, thresholdMB) ==
    FGe(F((st.usage \div KiB) \div KiB), thresholdMB)

\* main, line 146: of what is in scope there (the sample, both threshold
\* forms) the comparison reads the two percentages.
Breach(pct, thresholdPct, st, thresholdMB) == FGe(pct, thresholdPct)

\* Mutant: the error of the sample is dropped and the returned 0 % is
\* evaluated (a breach under a threshold of 0).
AfterSampleErrorPcEvaluating(mon, pct, thresholdPct) ==
    IF FGe(pct, thresholdPct) THEN "install"
    ELSE IF mon THEN "sleep" ELSE ReturnPc

\* main, lines 133-142: a failed sample ends the iteration.
AfterSampleErrorPc(mon, pct, thresholdPct) == IF mon THEN "sleep" ELSE ReturnPc

\* main, lines 131-147 and 211-219: sample, then evaluate.
Poll ==
    /\ pc = "loop"
    /\ ~CtxDone(ctx)
    /\ polls < MaxPolls
    /\ polls' = polls + 1
    /\ \E ok \in BOOLEAN, st \in Stats :
        LET r == GetContainerMemoryUsage(ok, st) IN
        /\ ~ok => st = CHOOSE x \in Stats : TRUE
        /\ memUsagePercent' = r.pct
        /\ err' = r.err
        /\ firstSample' =
             IF polls > 0 THEN firstSample
             ELSE IF r.err THEN "error"
             ELSE IF FLt(r.pct, thresholdValue) THEN "below"
             ELSE IF FGe(r.pct, thresholdValue) THEN "breach" ELSE "unordered"
        /\ clean' = (clean /\ ~r.err /\ FGe(r.pct, thresholdValue))
        /\ IF r.err
           THEN /\ pc' = AfterSampleErrorPc(monitor, r.pct, thresholdValue)
                /\ reason' = IF monitor THEN reason ELSE "sampleError"
           ELSE IF Breach(r.pct, thresholdValue, st, totalMemoryThreshold)
           THEN /\ pc' = "install"
                /\ reason' = reason
           ELSE /\ pc' = IF monitor THEN "sleep" ELSE ReturnPc
                /\ reason' = IF monitor THEN reason ELSE "single"
    /\ UNCHANGED <<flags, aux, globalTimeout, derived, ctx, exitCode, dumpCounter,
                   memoryUsageMB, usageMB, pid, output, retryCount, did, attaches, transients>>

\* main, lines 140, 181, 221: time.Sleep(checkInterval), then the next
\* iteration; the iteration's locals go out of scope.
Sleep ==
    /\ pc = "sleep"
    /\ pc' = "loop"
    /\ memUsagePercent' = NoSample
    /\ memoryUsageMB' = 0
    /\ usageMB' = 0
    /\ pid' = 0
    /\ output' = NoOutput
    /\ err' = FALSE
    /\ retryCount' = 0
    /\ sleeps' = sleeps + 1
    /\ UNCHANGED <<flags, tally, issued, call, dirCreated, globalTimeout, derived, ctx,
                   exitCode, dumpCounter, ghost>>

\* main, lines 153-154 and 171-172: time.Sleep(checkInterval), then return.
SleepReturn ==
    /\ pc = "sleepReturn"
    /\ pc' = ReturnPc
    /\ UNCHANGED <<flags, aux, globalTimeout, derived, ctx, exitCode, dumpCounter, locals, ghost>>

\* ---------------------------------------------------------- installDumpTool
\* Mutant: one more name taken for a tool that can be installed.
SupportedWithGcore == {"procdump", "dotnet-dump", "dotMemory", "gcore"}

\* installDumpTool, lines 250, 265, 280: the cases of the switch.
Supported == {"procdump", "dotnet-dump", "dotMemory"}

\* Mutant: the loop goes on to the PID after a failed install.
InstallReturnPcIgnoringFailure(failed) ==
    IF installOnly THEN "exited" ELSE "getPID"

\* installDumpTool returns to its caller: main at lines 80-86 (install-only
\* mode, os.Exit) or main at lines 150-155 (a breaching iteration).
InstallReturnPc(failed) ==
    IF installOnly THEN "exited"
    ELSE IF failed THEN "sleepReturn" ELSE "getPID"

\* Mutant: install-only mode always ends with status 0.
InstallExitAlwaysZero(failed) ==
    IF installOnly THEN 0 ELSE exitCode

InstallExit(failed) ==
    IF installOnly THEN (IF failed THEN 1 ELSE 0) ELSE exitCode

InstallReason(failed) ==
    IF installOnly THEN "installOnly" ELSE IF failed THEN "install" ELSE reason

\* main, line 150: a breaching iteration calls installDumpTool. The sample is
\* not read again on this path (its last use is the comparison of line 146),
\* so the model forgets it here.
StartInstall ==
    /\ pc = "install"
    /\ pc' = "probe"
    /\ did' = did \cup {"install"}
    /\ memUsagePercent' = NoSample
    /\ UNCHANGED <<flags, aux, globalTimeout, derived, ctx, exitCode, dumpCounter,
                   memoryUsageMB, usageMB, pid, output, err, retryCount,
                   polls, firstSample, clean, attaches, transients, reason>>

\* installDumpTool, lines 301-303
InstallUnsupported ==
    /\ pc = "probe"
    /\ dumpTool \notin Supported
    /\ pc' = InstallReturnPc(TRUE)
    /\ exitCode' = InstallExit(TRUE)
    /\ reason' = InstallReason(TRUE)
    /\ clean' = FALSE
    /\ UNCHANGED <<flags, aux, globalTimeout, derived, ctx, dumpCounter, locals,
                   polls, firstSample, did, attaches, transients>>

\* installDumpTool, lines 253, 268, 283
NotInstalled(tool, res) ==
    IF tool = "procdump" THEN res.err ELSE res.err \/ "nofile" \in res.out

\* What the probe command (which, ls) can give: the call fails; the tool is
\* found; ls does not find it, says so and exits non-zero; which does not
\* find it, prints nothing and exits non-zero. helpers.ExecInContainer does
\* not read the exit status of the command, so exit is not in what it returns.
ProbeResults ==
    { [out |-> {}, err |-> TRUE, exit |-> 0],
      [out |-> {}, err |-> FALSE, exit |-> 0],
      [out |-> {"nofile"}, err |-> FALSE, exit |-> 1],
      [out |-> {}, err |-> FALSE, exit |-> 1] }

\* installDumpTool, lines 252, 267, 282: the probe command.
Probe ==
    /\ pc = "probe"
    /\ dumpTool \in Supported
    /\ \E res \in ProbeResults :
        /\ probe' = res
        /\ IF NotInstalled(dumpTool, res)
           THEN /\ pc' = "installCmd"
                /\ UNCHANGED <<exitCode, reason>>
           ELSE /\ pc' = InstallReturnPc(FALSE)
                /\ exitCode' = InstallExit(FALSE)
                /\ reason' = InstallReason(FALSE)
    /\ UNCHANGED <<flags, trail, tally, cmd, call, globalTimeout, derived, ctx, dumpCounter, locals,
                   polls, firstSample, clean, did, attaches, transients>>

\* installDumpTool, lines 255-260, 270-275, 291-296: the install command.
InstallCmd ==
    /\ pc = "installCmd"
    /\ \E failed \in BOOLEAN :
        /\ pc' = InstallReturnPc(failed)
        /\ exitCode' = InstallExit(failed)
        /\ reason' = InstallReason(failed)
        /\ clean' = (clean /\ ~failed)
    /\ probe' = NoProbe
    /\ UNCHANGED <<flags, trail, tally, cmd, call, globalTimeout, derived, ctx, dumpCounter, locals,
                   polls, firstSample, did, attaches, transients>>

\* ------------------------------------------------------------- dump cycle
\* main, lines 157-165 (helpers.GetPIDInContainer)
GetPID ==
    /\ pc = "getPID"
    /\ did' = did \cup {"pid"}
    /\ \/ /\ pid' \in Pids
          /\ pc' = "mkdirContainer"
          /\ UNCHANGED <<clean, reason>>
       \/ /\ pid' = 0
          /\ pc' = ReturnPc
          /\ clean' = FALSE
          /\ reason' = "pid"
    /\ probe' = NoProbe
    /\ UNCHANGED <<flags, trail, tally, cmd, call, globalTimeout, derived, ctx, exitCode, dumpCounter,
                   memUsagePercent, memoryUsageMB, usageMB, output, err, retryCount,
                   polls, firstSample, attaches, transients>>

\* Mutant: the failed mkdir ends the iteration only (continue).
AfterMkdirPcContinue(failed) == IF failed THEN "sleep" ELSE "createDump"

\* main, lines 168-173: a failed mkdir sleeps and returns from main.
AfterMkdirPc(failed) == IF failed THEN "sleepReturn" ELSE "createDump"

\* main, lines 167-173
MkdirContainer ==
    /\ pc = "mkdirContainer"
    /\ did' = did \cup {"mkdir"}
    /\ \E failed \in BOOLEAN :
        /\ pc' = AfterMkdirPc(failed)
        /\ clean' = (clean /\ ~failed)
        /\ reason' = IF failed THEN "mkdir" ELSE reason
        /\ dirCreated' = (dirCreated \/ ~failed)
    /\ UNCHANGED <<flags, tally, issued, call, sleeps, globalTimeout, derived, ctx, exitCode, dumpCounter, locals,
                   polls, firstSample, attaches, transients>>

\* Mutant: the error of the invocation is not looked at.
AfterDumpPcIgnoringError(failed) == "export"

\* Mutant: a failed cycle goes back to polling without the sleep.
AfterDumpPcWithoutSleep(failed) == IF failed THEN "loop" ELSE "export"

\* main, lines 177-183: what the loop does with createMemoryDump's result.
AfterDumpPc(failed) == IF failed THEN "sleep" ELSE "export"

\* fmt.Sprintf("%.0f", f) for f >= 0: the nearest integer, a tie going to the
\* even one; "NaN" and "+Inf" for the two special values.
RoundHalfEven(n, d) ==
    LET q == n \div d
        r == n % d IN
    IF 2 * r < d THEN q
    ELSE IF 2 * r > d THEN q + 1
    ELSE IF q % 2 = 0 THEN q ELSE q + 1

FormatFloat0(f) ==
    IF IsNaN(f) THEN "NaN"
    ELSE IF f = PosInf THEN "+Inf"
    ELSE ToString(RoundHalfEven(f.n, f.d))

\* Mutant: the command without its -M option.
ProcdumpCmdNoThreshold(thresholdMB, p) ==
    <<"procdump", "-d", "-n", "1", "-s", "1", "-p", ToString(p), "-o", "dumpFile">>

\* createMemoryDump, line 310: the command line; "dumpFile" stands for the
\* path of line 176.
ProcdumpCmd(thresholdMB, p) ==
    <<"procdump", "-d", "-n", "1", "-s", "1", "-M", FormatFloat0(thresholdMB),
      "-p", ToString(p), "-o", "dumpFile">>

\* createMemoryDump, lines 309-311: procdump is one command.
Procdump ==
    /\ pc = "createDump"
    /\ dumpTool = "procdump"
    /\ did' = did \cup {"invoke"}
    /\ cmd' = ProcdumpCmd(totalMemoryThreshold, pid)
    /\ \E res \in ExecResults(DumpOutputs) :
        /\ output' = res.out
        /\ err' = res.err
        /\ pc' = AfterDumpPc(res.err)
        /\ clean' = (clean /\ ~res.err)
    /\ UNCHANGED <<flags, trail, tally, probe, call, globalTimeout, derived, ctx, exitCode,
                   dumpCounter, memUsagePercent, memoryUsageMB, usageMB, pid, retryCount,
                   polls, firstSample, attaches, transients, reason>>

\* createMemoryDump, lines 312-317: dotnet-dump and dotMemory go through
\* createDotnetDump.
EnterDotnetDump ==
    /\ pc = "createDump"
    /\ dumpTool \in {"dotnet-dump", "dotMemory"}
    /\ pc' = "innerSample"
    /\ did' = did \cup {"invoke"}
    /\ attaches' = 0
    /\ transients' = 0
    /\ UNCHANGED <<flags, aux, globalTimeout, derived, ctx, exitCode, dumpCounter, locals,
                   polls, firstSample, clean, reason>>

\* createMemoryDump, lines 318-320. Not a step of main: for such a tool
\* installDumpTool has failed before (InstallUnsupported).
DumpUnsupported ==
    /\ pc = "createDump"
    /\ dumpTool \notin Supported
    /\ output' = {}
    /\ err' = TRUE
    /\ pc' = AfterDumpPc(TRUE)
    /\ clean' = FALSE
    /\ UNCHANGED <<flags, aux, globalTimeout, derived, ctx, exitCode, dumpCounter,
                   memUsagePercent, memoryUsageMB, usageMB, pid, retryCount,
                   polls, firstSample, did, attaches, transients, reason>>

\* ------------------------------------------------------- createDotnetDump
\* createDotnetDump, line 330: the second return value of
\* GetContainerMemoryUsage, named memoryUsageMB, is compared to the threshold.
Gate(mb, thresholdMB) == FGe(F(mb), thresholdMB)

\* createDotnetDump, lines 325-330 and 365-371. The sample is local to one
\* turn of the loop: the steps that follow it start from a cleared value.
InnerSample ==
    /\ pc = "innerSample"
    /\ \E ok \in BOOLEAN, st \in Stats :
        LET r == GetContainerMemoryUsage(ok, st) IN
        /\ ~ok => st = CHOOSE x \in Stats : TRUE
        /\ memoryUsageMB' = r.mb
        /\ usageMB' = r.used
        /\ clean' = (clean /\ ~r.err /\ FGe(r.pct, thresholdValue))
        /\ IF r.err
           THEN /\ output' = {}
                /\ err' = TRUE
                /\ pc' = AfterDumpPc(TRUE)
           ELSE /\ UNCHANGED <<output, err>>
                /\ pc' = IF Gate(r.mb, totalMemoryThreshold)
                         THEN (IF dumpTool = "dotnet-dump" THEN "collect" ELSE "attach")
                         ELSE "innerSleep"
    /\ UNCHANGED <<flags, aux, globalTimeout, derived, ctx, exitCode, dumpCounter,
                   memUsagePercent, pid, retryCount,
                   polls, firstSample, did, attaches, transients, reason>>

\* createDotnetDump, line 373
InnerSleep ==
    /\ pc = "innerSleep"
    /\ pc' = "innerSample"
    /\ memoryUsageMB' = 0
    /\ usageMB' = 0
    /\ UNCHANGED <<flags, aux, globalTimeout, derived, ctx, exitCode, dumpCounter,
                   memUsagePercent, pid, output, err, retryCount, ghost>>

\* createDotnetDump, lines 331-333: dotnet-dump collect.
Collect ==
    /\ pc = "collect"
    /\ \E res \in ExecResults(DumpOutputs) :
        /\ output' = res.out
        /\ err' = res.err
        /\ pc' = AfterDumpPc(res.err)
        /\ clean' = (clean /\ ~res.err)
    /\ memoryUsageMB' = 0
    /\ usageMB' = 0
    /\ UNCHANGED <<flags, aux, globalTimeout, derived, ctx, exitCode, dumpCounter,
                   memUsagePercent, pid, retryCount,
                   polls, firstSample, did, attaches, transients, reason>>

\* createDotnetDump, line 341: the three transient markers.
IsTransient(out) == out \cap {"unrec", "objref", "nonw"} # {}

\* Mutant: one retry too many.
RetryCondInclusive(out, count) == IsTransient(out) /\ count <= maxRetries

\* createDotnetDump, line 341: the condition of the retry loop.
RetryCond(out, count) == IsTransient(out) /\ count < maxRetries

\* Mutant: the directory is cleared on every retry.
AfterAttachPcClearingAlways(out, count) ==
    IF RetryCond(out, count) THEN "rmDir" ELSE "lsDumps"

\* createDotnetDump, lines 341-348: where the loop goes after an attach.
AfterAttachPc(out, count) ==
    IF RetryCond(out, count)
    THEN (IF "dashw" \in out THEN "rmDir" ELSE "reattach")
    ELSE "lsDumps"

\* createDotnetDump, lines 335-340: the first dotMemory attach.
Attach ==
    /\ pc = "attach"
    /\ \E res \in ExecResults(AttachOutputs) :
        /\ output' = res.out
        /\ err' = res.err
        /\ retryCount' = 0
        /\ attaches' = attaches + 1
        /\ transients' = IF IsTransient(res.out) THEN transients + 1 ELSE transients
        /\ pc' = AfterAttachPc(res.out, 0)
    /\ memoryUsageMB' = 0
    /\ usageMB' = 0
    /\ UNCHANGED <<flags, aux, globalTimeout, derived, ctx, exitCode, dumpCounter,
                   memUsagePercent, pid,
                   polls, firstSample, clean, did, reason>>

\* createDotnetDump, lines 343-348: rm -rf /tmp/dumps, its result dropped,
\* then a 2 s sleep; nothing creates the directory again.
RmDir ==
    /\ pc = "rmDir"
    /\ pc' = "reattach"
    /\ \E removed \in BOOLEAN : dirCreated' = (dirCreated /\ ~removed)
    /\ UNCHANGED <<flags, tally, issued, call, sleeps, globalTimeout, derived, ctx, exitCode, dumpCounter, locals, ghost>>

\* createDotnetDump, lines 350-355: one retry of the attach command.
Reattach ==
    /\ pc = "reattach"
    /\ \E res \in ExecResults(AttachOutputs) :
        /\ output' = res.out
        /\ err' = res.err
        /\ attaches' = attaches + 1
        /\ transients' = IF IsTransient(res.out) THEN transients + 1 ELSE transients
    /\ retryCount' = retryCount + 1
    /\ pc' = "cooldown"
    /\ UNCHANGED <<flags, aux, globalTimeout, derived, ctx, exitCode, dumpCounter,
                   memUsagePercent, memoryUsageMB, usageMB, pid,
                   polls, firstSample, clean, did, reason>>

\* createDotnetDump, lines 356 and 341: 2 s sleep, then the loop condition.
Cooldown ==
    /\ pc = "cooldown"
    /\ pc' = AfterAttachPc(output, retryCount)
    /\ UNCHANGED <<flags, aux, globalTimeout, derived, ctx, exitCode, dumpCounter, locals, ghost>>

\* createDotnetDump, lines 358-361, and main, lines 177-183: list the dump
\* directory, return the last output and error to the loop; retryCount goes
\* out of scope.
LsDumps ==
    /\ pc = "lsDumps"
    /\ pc' = AfterDumpPc(err)
    /\ clean' = (clean /\ ~err)
    /\ retryCount' = 0
    /\ attaches' = 0
    /\ transients' = 0
    /\ UNCHANGED <<flags, aux, globalTimeout, derived, ctx, exitCode, dumpCounter,
                   memUsagePercent, memoryUsageMB, usageMB, pid, output, err,
                   polls, firstSample, did, reason>>

\* ------------------------------------------------------- export and count
\* Mutant: a failed copy ends the cycle without a count.
AfterExportPcSkippingCount(failed) == IF failed THEN "sleep" ELSE "count"

\* main, lines 198-206: both branches of the copy's error test fall through
\* to the count.
AfterExportPc(failed) == "count"

\* main, lines 185-204: docker cp; its error is assigned to err and only
\* reported.
Export ==
    /\ pc = "export"
    /\ did' = did \cup {"export"}
    /\ \E failed \in BOOLEAN :
        /\ err' = failed
        /\ pc' = AfterExportPc(failed)
        /\ exportsOk' = IF failed THEN exportsOk ELSE exportsOk + 1
    /\ exportsTried' = exportsTried + 1
    /\ UNCHANGED <<flags, trail, cleanups, issued, call, globalTimeout, derived, ctx, exitCode,
                   dumpCounter, memUsagePercent, memoryUsageMB, usageMB, pid, output,
                   retryCount, polls, firstSample, clean, attaches, transients, reason>>

\* Mutant: single-shot mode also stops after a counted dump.
LimitReachedOrSingleShot(counter, limit, mon) == counter >= limit \/ ~mon

\* Mutant: the limit has to be passed, not reached.
LimitReachedStrictly(counter, limit, mon) == counter > limit

\* main, line 207
LimitReached(counter, limit, mon) == counter >= limit

\* Mutant: only a dump that was copied is counted.
CountedIfCopied(counter, copyFailed) == IF copyFailed THEN counter ELSE counter + 1

\* main, line 206: dumpCounter++, whatever the copy returned.
Counted(counter, copyFailed) == counter + 1

\* main, lines 206-210
Count ==
    /\ pc = "count"
    /\ dumpCounter' = Counted(dumpCounter, err)
    /\ did' = did \cup {"count"}
    /\ IF LimitReached(dumpCounter', dumpsCount, monitor)
       THEN /\ pc' = ReturnPc
            /\ reason' = "limit"
       ELSE /\ pc' = "sleep"
            /\ reason' = reason
    /\ UNCHANGED <<flags, aux, globalTimeout, derived, ctx, exitCode, locals,
                   polls, firstSample, clean, attaches, transients>>

\* ---------------------------------------------------------- deferred calls
\* killProcess, lines 236-246 (deferred at line 91): errors are dropped.
KillProcess ==
    /\ pc = "killProcess"
    /\ pc' = "cleanupDumps"
    /\ UNCHANGED <<flags, aux, globalTimeout, derived, ctx, exitCode, dumpCounter, locals, ghost>>

\* cleanupDumps, lines 226-234 (deferred at line 90): errors are dropped.
CleanupDumps ==
    /\ pc = "cleanupDumps"
    /\ pc' = "closeIdle"
    /\ cleanups' = cleanups + 1
    /\ \E removed \in BOOLEAN : dirCreated' = (dirCreated /\ ~removed)
    /\ UNCHANGED <<flags, sleeps, exportsTried, exportsOk, issued, call, globalTimeout, derived,
                   ctx, exitCode, dumpCounter, locals, ghost>>

\* main, line 75 (deferred), then main has returned: the process ends with
\* status 0.
CloseIdle ==
    /\ pc = "closeIdle"
    /\ pc' = "done"
    /\ exitCode' = 0
    /\ UNCHANGED <<flags, aux, globalTimeout, derived, ctx, dumpCounter, locals, ghost>>

\* ----------------------------------------------------------- specification
\* One step of the program's single goroutine.
ProgramStep ==
    \/ ParseThreshold
    \/ EnterInstallOnly
    \/ SkipInstallOnly
    \/ MkdirHost
    \/ StartupSample
    \/ LoopDeadline
    \/ Poll
    \/ Sleep
    \/ SleepReturn
    \/ StartInstall
    \/ InstallUnsupported
    \/ Probe
    \/ InstallCmd
    \/ GetPID
    \/ MkdirContainer
    \/ Procdump
    \/ EnterDotnetDump
    \/ InnerSample
    \/ InnerSleep
    \/ Collect
    \/ Attach
    \/ RmDir
    \/ Reattach
    \/ Cooldown
    \/ LsDumps
    \/ Export
    \/ Count
    \/ KillProcess
    \/ CleanupDumps
    \/ CloseIdle

Next ==
    \/ ProgramStep
    \/ DeadlineElapses

Spec == Init /\ [][Next]_vars

\* The goroutine of main is never suspended for ever while it has a step to
\* take (every external call returns), and the runtime fires the timer of
\* context.WithTimeout once it is armed.
FairSpec == Spec /\ WF_vars(ProgramStep) /\ WF_vars(DeadlineElapses)

\* The startup path alone, over every threshold string.
NextT ==
    \/ ParseThreshold
    \/ SkipInstallOnly
    \/ MkdirHost
    \/ StartupSample

SpecT == InitT /\ [][NextT]_vars

\* ---------------------------------------------------------- export paths
\* Paths are sequences of characters; a file name part such as
\* "core_7_1.dmp" is kept as one character that is neither "/" nor ".".
RECURSIVE StringsOver(_, _)
StringsOver(alpha, k) ==
    IF k = 0 THEN { <<>> }
    ELSE LET shorter == StringsOver(alpha, k - 1) IN
         shorter \cup { Append(t, c) : t \in shorter, c \in alpha }

RECURSIVE StripSlashes(_)
StripSlashes(path) ==
    IF path # <<>> /\ path[Len(path)] = "/"
    THEN StripSlashes(SubSeq(path, 1, Len(path) - 1))
    ELSE path

RECURSIVE AfterLastSlash(_)
AfterLastSlash(path) ==
    IF path = <<>> \/ path[Len(path)] = "/" THEN <<>>
    ELSE Append(AfterLastSlash(SubSeq(path, 1, Len(path) - 1)), path[Len(path)])

\* filepath.Base: "." for the empty path, "/" for a path of slashes, else the
\* last element without trailing slashes.
Base(path) ==
    IF path = <<>> THEN <<".">>
    ELSE IF StripSlashes(path) = <<>> THEN <<"/">>
    ELSE AfterLastSlash(StripSlashes(path))

RECURSIVE CollapseSlashes(_)
CollapseSlashes(path) ==
    IF Len(path) < 2 THEN path
    ELSE LET rest == CollapseSlashes(Tail(path)) IN
         IF path[1] = "/" /\ rest[1] = "/" THEN rest ELSE <<path[1]>> \o rest

\* filepath.Clean on paths without "." and ".." elements: repeated slashes
\* become one, a trailing slash goes unless the path is the root, and the
\* empty path becomes ".".
Clean(path) ==
    LET c == CollapseSlashes(path) IN
    IF c = <<>> THEN <<".">>
    ELSE IF c = <<"/">> THEN c
    ELSE IF c[Len(c)] = "/" THEN SubSeq(c, 1, Len(c) - 1) ELSE c

\* filepath.Join of two elements: empty elements are ignored, the rest is
\* joined with "/" and cleaned; the join of nothing is the empty path.
Join(a, b) ==
    IF a = <<>> /\ b = <<>> THEN <<>>
    ELSE IF a = <<>> THEN Clean(b)
    ELSE IF b = <<>> THEN Clean(a)
    ELSE Clean(a \o <<"/">> \o b)

\* Mutant: the two numbers run together.
DumpFileNameUnseparated(dirC, p, now) ==
    dirC \o <<"/", "core_" \o ToString(p) \o ToString(now) \o ".dmp">>

\* main, line 176: fmt.Sprintf("%s/core_%d_%d.dmp", dumpDirContainer, pid, now)
DumpFileName(dirC, p, now) ==
    dirC \o <<"/", "core_" \o ToString(p) \o "_" \o ToString(now) \o ".dmp">>

\* main, lines 185-191: the suffix of the tool's artifact.
Suffixed(tool, p, dumpFile) ==
    IF tool = "procdump" THEN Append(dumpFile, "_0." \o ToString(p))
    ELSE IF tool = "dotMemory" THEN Append(dumpFile, ".dmw")
    ELSE dumpFile

\* main, lines 185-197: the path printed as the host's and the two
\* arguments of docker cp (the container name in front of src is left out).
ExportPaths(tool, p, now, dirC, dirH) ==
    LET dumpFile == Suffixed(tool, p, DumpFileName(dirC, p, now)) IN
    [fn |-> "export",
     hostDumpFile |-> Join(dirH, Base(dumpFile)),
     src |-> dumpFile,
     dst |-> dumpFile]

DirAlphabet == {"/", "d", "e"}
ExportArgs ==
    { [fn |-> "export", tool |-> t, pid |-> p, now |-> 1, dirC |-> c, dirH |-> h] :
        t \in Supported, p \in Pids, c \in StringsOver(DirAlphabet, MaxDir),
        h \in StringsOver(DirAlphabet, MaxDir) }

CallExport ==
    /\ arg.fn = "export"
    /\ ret = NoCall
    /\ ret' = ExportPaths(arg.tool, arg.pid, arg.now, arg.dirC, arg.dirH)
    /\ UNCHANGED <<flags, trail, tally, issued, arg, globalTimeout, derived, pc, ctx, exitCode,
                   dumpCounter, locals, ghost>>

\* Two cycles of one run build their paths: pids and Unix seconds whose
\* decimal forms are prefixes of each other.
NamePids == {1, 11, 7}
NameTimes == {1, 11, 117}
NameArgs ==
    { [fn |-> "name", dirC |-> c, pidA |-> pa, nowA |-> na, pidB |-> pb, nowB |-> nb] :
        c \in { <<"/", "d">> }, pa \in NamePids, na \in NameTimes,
        pb \in NamePids, nb \in NameTimes }

\* main, line 176, in two iterations of the loop
CallDumpFileName ==
    /\ arg.fn = "name"
    /\ ret = NoCall
    /\ ret' = [a |-> DumpFileName(arg.dirC, arg.pidA, arg.nowA),
               b |-> DumpFileName(arg.dirC, arg.pidB, arg.nowB)]
    /\ UNCHANGED <<flags, trail, tally, issued, arg, globalTimeout, derived, pc, ctx, exitCode,
                   dumpCounter, locals, ghost>>

\* ------------------------------------------------------ GetPIDInContainer
\* strings.Fields: the maximal runs of characters other than white space.
RECURSIVE Fields(_)
Fields(str) ==
    IF str = <<>> THEN <<>>
    ELSE LET before == Fields(SubSeq(str, 1, Len(str) - 1))
             c == str[Len(str)] IN
         IF c = " " THEN before
         ELSE IF Len(str) > 1 /\ str[Len(str) - 1] # " "
              THEN [before EXCEPT ![Len(before)] = Append(@, c)]
              ELSE Append(before, <<c>>)

\* strconv.Atoi: an optional sign and then decimal digits, at least one.
AtoiDigits(field) ==
    IF field # <<>> /\ field[1] \in {"+", "-"} THEN Tail(field) ELSE field

AtoiOk(field) ==
    /\ AtoiDigits(field) # <<>>
    /\ \A i \in 1..Len(AtoiDigits(field)) : IsDigit(AtoiDigits(field)[i])

AtoiVal(field) ==
    IF field[1] = "-" THEN 0 - DecVal(AtoiDigits(field)) ELSE DecVal(AtoiDigits(field))

\* Mutant: the last field that is an integer.
GetPIDInContainerLast(out, failed) ==
    LET fs == Fields(out)
        ints == { i \in 1..Len(fs) : AtoiOk(fs[i]) } IN
    IF failed \/ ints = {} THEN [fn |-> "pid", pid |-> 0, err |-> TRUE]
    ELSE [fn |-> "pid",
          pid |-> AtoiVal(fs[CHOOSE i \in ints : \A j \in ints : j <= i]),
          err |-> FALSE]

\* helpers.GetPIDInContainer, given what ExecInContainer returned.
GetPIDInContainer(out, failed) ==
    LET fs == Fields(out)
        ints == { i \in 1..Len(fs) : AtoiOk(fs[i]) } IN
    IF failed \/ ints = {} THEN [fn |-> "pid", pid |-> 0, err |-> TRUE]
    ELSE [fn |-> "pid",
          pid |-> AtoiVal(fs[CHOOSE i \in ints : \A j \in ints : i <= j]),
          err |-> FALSE]

PsAlphabet == {" ", "1", "2", "a", "-"}
PidArgs ==
    { [fn |-> "pid", out |-> <<>>, err |-> TRUE] } \cup
    { [fn |-> "pid", out |-> o, err |-> FALSE] : o \in StringsOver(PsAlphabet, MaxLen) }

CallGetPID ==
    /\ arg.fn = "pid"
    /\ ret = NoCall
    /\ ret' = GetPIDInContainer(arg.out, arg.err)
    /\ UNCHANGED <<flags, trail, tally, issued, arg, globalTimeout, derived, pc, ctx, exitCode,
                   dumpCounter, locals, ghost>>

\* ------------------------------------------------ GetContainerMemoryUsage
\* Docker stats answers in bytes, the one of main_test.go among them.
MemStats ==
    { [usage |-> u, limit |-> l] :
        u \in {0, 1, MiB, 3 * MiB, 100 * MiB},
        l \in {0, MiB - 1, MiB, 4 * MiB + 1, 8 * MiB, KiB * MiB} }

MemArgs ==
    { [fn |-> "mem", ok |-> FALSE, st |-> [usage |-> 0, limit |-> 0]] } \cup
    { [fn |-> "mem", ok |-> TRUE, st |-> st] : st \in MemStats }

CallGetMemoryUsage ==
    /\ arg.fn = "mem"
    /\ ret = NoCall
    /\ ret' = GetContainerMemoryUsage(arg.ok, arg.st)
    /\ UNCHANGED <<flags, trail, tally, issued, arg, globalTimeout, derived, pc, ctx, exitCode,
                   dumpCounter, locals, ghost>>

\* The helpers and the path computation, each called once on its own.
InitH ==
    /\ threshold = <<"5", "0", "%">>
    /\ monitor = FALSE
    /\ dumpsCount = 1
    /\ cleanup = FALSE
    /\ dumpTool = "procdump"
    /\ installOnly = FALSE
    /\ globalTimeout = 0
    /\ timeoutGiven = globalTimeout
    /\ arg \in ExportArgs \cup PidArgs \cup MemArgs \cup NameArgs
    /\ ret = NoCall
    /\ InitRun

NextH ==
    \/ CallExport
    \/ CallGetPID
    \/ CallGetMemoryUsage
    \/ CallDumpFileName

SpecH == InitH /\ [][NextH]_vars

\* ================================================================= claims
ExitPcs == {"killProcess", "cleanupDumps", "closeIdle", "done"}
\* The startup sample has been taken and both threshold forms derived.
Started ==
    /\ ~installOnly
    /\ pc \notin {"parse", "installOnly", "mkdirHost", "startup"}
    /\ reason # "hostMkdir"

\* Decimal rendering of a natural number, and the renderings of 0..MaxNum.
RECURSIVE DecStr(_)
DecStr(x) ==
    IF x < 10 THEN <<Digits[x + 1]>>
    ELSE Append(DecStr(x \div 10), Digits[(x % 10) + 1])

DecStrs == [x \in 0..MaxNum |-> DecStr(x)]

MBSuffixes == { <<"m", "b">>, <<"M", "B">>, <<"M", "b">>, <<"m", "B">> }

C2_BelowSingleShot ==
    (firstSample = "below" /\ ~monitor) =>
        /\ polls = 1
        /\ did = {}
        /\ dumpCounter = 0
        /\ pc \in ExitPcs
        /\ reason = "single"

C2_Witness ==
    firstSample = "below" /\ ~monitor /\ pc = "done" /\ polls = 1 /\ did = {}

\* C3 (as claimed): after a dump is counted the run terminates if
\* dumpsCompleted >= dumpsCount or continuous mode is disabled.
C3_TerminatesAfterCount ==
    [][(pc = "count" /\ pc' # "count" /\ (dumpCounter' >= dumpsCount \/ ~monitor))
          => pc' \in ExitPcs]_vars

\* C4 (as claimed): with continuous mode disabled the loop never samples
\* memory a second time.
C4_SingleShotOnePoll ==
    ~monitor => polls <= 1

\* C5: in an iteration whose sample succeeds, a dump cycle is started if and
\* only if usedPercent >= thresholdPercent (equality included).
C5_CycleIffBreach ==
    [][(pc = "loop" /\ polls' = polls + 1 /\ ~err')
          => ((pc' = "install") <=> FGe(memUsagePercent', thresholdValue))]_vars

C5_Witness ==
    /\ pc = "install"
    /\ memUsagePercent = thresholdValue
    /\ threshold = <<"3", "M", "B">>
    /\ totalMemoryThreshold = F(3)

\* C6: a threshold X% or bare X gives thresholdPercent = X and
\* thresholdAbsoluteMB = X/100 * totalMemoryMB.
C6_PercentForm ==
    Started =>
        \A X \in 0..MaxNum :
            (threshold = DecStrs[X] \/ threshold = Append(DecStrs[X], "%")) =>
                /\ thresholdValue = F(X)
                /\ totalMemoryThreshold.d > 0
                /\ 100 * totalMemoryThreshold.n = X * totalMemory * totalMemoryThreshold.d

C6_Witness ==
    /\ Started
    /\ threshold = <<"1", "2", "%">>
    /\ totalMemory = 8
    /\ totalMemoryThreshold = [n |-> 24, d |-> 25]

\* C7: a threshold YMB (suffix in any letter case) gives
\* thresholdAbsoluteMB = Y and thresholdPercent = Y/totalMemoryMB * 100, the
\* quotient taken as float64 does (+Inf for Y > 0 and NaN for Y = 0 when
\* totalMemoryMB is 0).
C7_MBForm ==
    Started =>
        \A Y \in 0..MaxNum : \A suf \in MBSuffixes :
            (threshold = DecStrs[Y] \o suf) =>
                /\ totalMemoryThreshold = F(Y)
                /\ IF totalMemory > 0
                   THEN /\ thresholdValue.d > 0
                        /\ thresholdValue.n * totalMemory = 100 * Y * thresholdValue.d
                   ELSE IF Y > 0 THEN thresholdValue = PosInf ELSE IsNaN(thresholdValue)

C7_Witness ==
    /\ Started
    /\ threshold = <<"1", "0", "M", "b">>
    /\ totalMemory = 8
    /\ thresholdValue = F(125)

\* C8 (as claimed): after startup thresholdAbsoluteMB equals
\* thresholdPercent/100 * totalMemoryMB, whatever the startup sample gave.
C8_FormsInSync ==
    Started =>
        /\ thresholdValue.d > 0
        /\ totalMemoryThreshold.d > 0
        /\ totalMemoryThreshold.n * 100 * thresholdValue.d
               = thresholdValue.n * totalMemory * totalMemoryThreshold.d

\* C9 (as claimed): a threshold whose numeric part does not parse gives
\* thresholdPercent = 0 and thresholdAbsoluteMB = 0, and the first successful
\* sample starts a dump cycle.
C9_UnparsedIsZero ==
    (Started /\ ParseFloat(ThresholdStr(threshold)).err) =>
        /\ thresholdValue = F(0)
        /\ totalMemoryThreshold = F(0)
        /\ (polls = 1 /\ firstSample \notin {"none", "error"}) => "install" \in did \/ pc = "install"

\* C10: dotMemory's attach is retried only while the latest output carries a
\* transient marker and at most 5 times: when the retry loop is left the
\* number of retries is min(consecutive transient outputs, 5), and one cycle
\* issues at most 6 attach commands.
C10_BoundedRetry ==
    /\ attaches <= 6
    /\ retryCount <= 5
    /\ pc \in {"rmDir", "reattach"} => IsTransient(output)
    /\ pc = "lsDumps" =>
          /\ retryCount = (IF transients < 5 THEN transients ELSE 5)
          /\ attaches = retryCount + 1

C10_Witness ==
    pc = "lsDumps" /\ transients = 6 /\ retryCount = 5 /\ attaches = 6 /\ IsTransient(output)

\* C11 (as claimed): when dotMemory has used up its 5 retries and the last
\* output still carries a transient marker, the loop receives a failure: it
\* goes to the sleep of the abandoned cycle, without export or count.
C11_ExhaustedIsFailure ==
    [][(pc = "lsDumps" /\ retryCount = maxRetries /\ IsTransient(output) /\ pc' # pc)
          => (err /\ pc' = "sleep" /\ did' = did /\ dumpCounter' = dumpCounter)]_vars

\* C12 (as claimed): dotnet-dump collect or dotMemory attach is reached only
\* from an adapter sample whose used megabytes are at least
\* thresholdAbsoluteMB, and a successful sample with fewer used megabytes
\* leads to the adapter's sleep.
C12_GateOnUsedMB ==
    [][(pc = "innerSample" /\ pc' # pc) =>
          /\ pc' \in {"collect", "attach"} => FGe(F(usageMB'), totalMemoryThreshold)
          /\ (pc' # "sleep" /\ FLt(F(usageMB'), totalMemoryThreshold)) => pc' = "innerSleep"]_vars

\* C13 (as claimed): with every external call returning, a run whose global
\* deadline has elapsed eventually terminates, from whatever step it is at,
\* the adapter's wait for the threshold included.
C13_DeadlineTerminates ==
    (ctx = "done") ~> (pc = "done")

\* C14: the deadline is examined only at the top of an iteration of the outer
\* loop. The run ends by deadline only from there; once the deadline has
\* elapsed no further outer sample is taken; a cycle or sleep that the
\* deadline overtakes goes on as it would have (export, then count, the
\* counter incremented; the sleep back to the top of the loop).
C14_DeadlineAtLoopTop ==
    [][/\ (reason' = "deadline" /\ reason # "deadline") => (pc = "loop" /\ ctx = "done")
       /\ ctx = "done" => polls' = polls
       /\ (ctx = "done" /\ pc = "export" /\ pc' # pc) => pc' = "count"
       /\ (ctx = "done" /\ pc = "count" /\ pc' # pc) =>
              (dumpCounter' = dumpCounter + 1 /\ reason' # "deadline")
       /\ (ctx = "done" /\ pc = "sleep" /\ pc' # pc) => pc' = "loop"
       /\ (ctx = "done" /\ pc = "loop" /\ pc' # pc) =>
              (pc' = ReturnPc /\ reason' = "deadline")]_vars

C14_Witness ==
    /\ reason = "deadline" /\ pc = "done"
    /\ "count" \in did /\ dumpCounter = 1 /\ dumpsCount = 2 /\ polls = 1

C16_InstallFailureRetried ==
    [][(/\ monitor /\ dumpTool \in {"procdump", "dotnet-dump"}
        /\ reason = "install" /\ pc = "sleepReturn" /\ pc' # pc)
          => (pc' = "loop" /\ dumpCounter' = dumpCounter)]_vars

\* C17 (as claimed): a failed PID resolution abandons the cycle in
\* continuous mode (on to the sleep, the counter unchanged) and ends the run
\* in single-shot mode.
C17_PidFailureByMode ==
    [][(pc = "getPID" /\ pid' = 0 /\ pc' # pc) =>
          /\ dumpCounter' = dumpCounter
          /\ IF monitor THEN pc' = "sleep" ELSE pc' = ReturnPc]_vars

\* C18 (as claimed): after a fatal setup failure (the host dump directory
\* cannot be created; in single-shot mode the PID is not resolved or the
\* install fails) the run is on its way out at once, without a sleep, and
\* the process ends with a non-zero status.
C18_FatalSetupAborts ==
    (reason = "hostMkdir" \/ (~monitor /\ reason \in {"pid", "install"})) =>
        /\ pc \in ExitPcs
        /\ pc = "done" => exitCode # 0

\* The steps of createMemoryDump, from its call to its return.
InvokePcs ==
    {"createDump", "innerSample", "innerSleep", "collect", "attach",
     "rmDir", "reattach", "cooldown", "lsDumps"}

\* C19: when the dump directory cannot be created inside the container the
\* run terminates, in both modes: from the failure on there is only the
\* sleep and the way out, with no tool invocation, export, count or further
\* memory sample.
C19_ContainerMkdirFatal ==
    [][/\ (pc = "mkdirContainer" /\ reason' = "mkdir") => pc' = "sleepReturn"
       /\ reason = "mkdir" =>
              /\ pc' \in {"sleepReturn"} \cup ExitPcs
              /\ did' = did
              /\ dumpCounter' = dumpCounter
              /\ polls' = polls
              /\ reason' = "mkdir"]_vars

C19_Witness ==
    /\ reason = "mkdir" /\ pc = "done" /\ monitor
    /\ polls = 1 /\ did = {"install", "pid", "mkdir"} /\ dumpCounter = 0 /\ dumpsCount = 2

C21_CountedWhateverTheExport ==
    [][/\ (pc \in InvokePcs /\ pc' \notin InvokePcs /\ ~err') => pc' = "export"
       /\ (pc = "export" /\ pc' # pc) => (pc' = "count" /\ dumpCounter' = dumpCounter)
       /\ (pc = "count" /\ pc' # pc) =>
              /\ dumpCounter' = dumpCounter + 1
              /\ IF dumpCounter' >= dumpsCount
                 THEN pc' \in ExitPcs /\ reason' = "limit"
                 ELSE pc' = "sleep"]_vars

C21_Witness ==
    /\ pc = "done" /\ reason = "limit"
    /\ dumpsCount = 2 /\ dumpCounter = 2 /\ exportsTried = 2 /\ exportsOk = 0

\* C22 (as claimed): outside the step between a copy and its count,
\* dumpsCompleted equals the number of dumps copied to the host with success.
C22_CountsExported ==
    pc # "count" => dumpCounter = exportsOk

\* C22 (amended): dumpsCompleted equals the number of copies attempted, one
\* per cycle whose invocation returned no error, whether the copy succeeded
\* or failed; the copies that succeeded are at most as many.
C22_CountsAttempted ==
    /\ exportsOk <= exportsTried
    /\ exportsTried = (IF pc = "count" THEN dumpCounter + 1 ELSE dumpCounter)

C22_Witness ==
    pc = "sleep" /\ dumpCounter = 1 /\ exportsTried = 1 /\ exportsOk = 0 /\ err

\* C23 (as claimed): the copy is requested from the container path with the
\* tool's suffix (procdump _0.<pid>, dotnet-dump none, dotMemory .dmw) to
\* {dumpDirHost}/{base name of that path}, for every pair of directories.
C23_ExportToHostPath ==
    (arg.fn = "export" /\ ret # NoCall) =>
        LET name == "core_" \o ToString(arg.pid) \o "_" \o ToString(arg.now) \o ".dmp"
            artifact ==
                arg.dirC \o <<"/", name>> \o
                (IF arg.tool = "procdump" THEN << "_0." \o ToString(arg.pid) >>
                 ELSE IF arg.tool = "dotMemory" THEN << ".dmw" >> ELSE << >>) IN
        /\ ret.src = artifact
        /\ ret.dst = Join(arg.dirH, Base(artifact))

\* C24: for procdump a dump invocation is the one command
\* procdump -d -n 1 -s 1 -M <thresholdAbsoluteMB, to the nearest integer>
\* -p <pid> -o <dump file>, with no memory sample and no retry, and what the
\* command returned decides between the export and the abandoned cycle.
C24_ProcdumpOneCommand ==
    [][(pc = "createDump" /\ dumpTool = "procdump" /\ pc' # pc) =>
          /\ Len(cmd') = 12
          /\ SubSeq(cmd', 1, 7) = <<"procdump", "-d", "-n", "1", "-s", "1", "-M">>
          /\ SubSeq(cmd', 9, 12) = <<"-p", ToString(pid), "-o", "dumpFile">>
          /\ IF totalMemoryThreshold.d > 0
             THEN \E k \in 0..MaxNum :
                    /\ cmd'[8] = ToString(k)
                    /\ 2 * (k * totalMemoryThreshold.d - totalMemoryThreshold.n)
                           <= totalMemoryThreshold.d
                    /\ 2 * (totalMemoryThreshold.n - k * totalMemoryThreshold.d)
                           <= totalMemoryThreshold.d
             ELSE cmd'[8] = (IF totalMemoryThreshold = PosInf THEN "+Inf" ELSE "NaN")
          /\ pc' = (IF err' THEN "sleep" ELSE "export")
          /\ <<memoryUsageMB', usageMB', retryCount', attaches'>>
                 = <<memoryUsageMB, usageMB, retryCount, attaches>>]_vars

C24_Witness ==
    /\ dumpTool = "procdump" /\ pc = "export"
    /\ threshold = <<"3", "M", "B">>
    /\ cmd = <<"procdump", "-d", "-n", "1", "-s", "1", "-M", "3", "-p", "7", "-o", "dumpFile">>

C26_InstallOnlyFrame ==
    installOnly =>
        /\ pc \in {"parse", "installOnly", "probe", "installCmd", "exited"}
        /\ polls = 0 /\ firstSample = "none" /\ pid = 0
        /\ did \subseteq {"install"}
        /\ cmd = NoCmd /\ exportsTried = 0 /\ dumpCounter = 0 /\ cleanups = 0
        /\ ctx = "background"
        /\ exitCode = (IF pc # "exited" THEN 0 - 1 ELSE IF clean THEN 0 ELSE 1)

C26_Witness ==
    /\ installOnly /\ pc = "exited" /\ exitCode = 1 /\ ~clean
    /\ cleanup /\ monitor /\ dumpTool = "dotnet-dump" /\ did = {"install"}

\* C27: with the cleanup flag set cleanupDumps runs exactly once, when the
\* monitoring run terminates (so after the last export and the last poll),
\* whatever ended the loop; it does not run before, and without the flag it
\* does not run at all.
C27_CleanupOnceAtExit ==
    /\ cleanups <= 1
    /\ cleanups = 1 => (cleanup /\ pc \in {"closeIdle", "done"})
    /\ pc = "done" => cleanups = (IF cleanup THEN 1 ELSE 0)
    /\ ~cleanup => cleanups = 0

C27_Witness ==
    /\ pc = "done" /\ cleanup /\ cleanups = 1
    /\ reason = "deadline" /\ exportsTried = 1 /\ polls = 2

\* C28: GetPIDInContainer returns the first white-space separated field of
\* the command's output that is an integer, and an error with PID 0 when the
\* command failed or no field is an integer.
C28_FirstIntegerField ==
    (arg.fn = "pid" /\ ret # NoCall) =>
        LET fs == Fields(arg.out) IN
        /\ ret.err <=> (arg.err \/ \A i \in 1..Len(fs) : ~AtoiOk(fs[i]))
        /\ ret.err => ret.pid = 0
        /\ ~ret.err =>
              \E i \in 1..Len(fs) :
                  /\ AtoiOk(fs[i])
                  /\ \A j \in 1..(i - 1) : ~AtoiOk(fs[j])
                  /\ ret.pid = AtoiVal(fs[i])

C28_Witness ==
    /\ arg.fn = "pid" /\ arg.out = <<"a", " ", "2", "1">>
    /\ ret = [fn |-> "pid", pid |-> 21, err |-> FALSE]

\* C29: GetContainerMemoryUsage returns usage / limit * 100 of the byte
\* counters and floor(limit / 2^20) MB (usage 104857600 and limit 1073741824
\* give 9.765625 % = 625/64 and 1024 MB), and an error with no sample when the
\* request fails or the answer does not parse.
C29_PercentAndTotal ==
    (arg.fn = "mem" /\ ret # NoCall) =>
        IF ~arg.ok THEN ret.err /\ ret.pct = F(0) /\ ret.mb = 0
        ELSE LET g == GCD(arg.st.usage, arg.st.limit)
                 u == IF g = 0 THEN 0 ELSE arg.st.usage \div g
                 l == IF g = 0 THEN 0 ELSE arg.st.limit \div g IN
             /\ ~ret.err
             /\ ret.mb * 1048576 <= arg.st.limit
             /\ arg.st.limit < (ret.mb + 1) * 1048576
             /\ IF arg.st.limit > 0
                THEN LET h == GCD(100 * u, l) IN
                     ret.pct = [n |-> (100 * u) \div h, d |-> l \div h]
                ELSE IF arg.st.usage > 0 THEN ret.pct = PosInf ELSE IsNaN(ret.pct)
             /\ (arg.st.usage = 104857600 /\ arg.st.limit = 1073741824) =>
                    (ret.pct = [n |-> 625, d |-> 64] /\ ret.mb = 1024)

C29_Witness ==
    /\ arg.fn = "mem" /\ arg.ok
    /\ arg.st = [usage |-> 104857600, limit |-> 1073741824]
    /\ ret # NoCall
    /\ ret.pct = [n |-> 625, d |-> 64] /\ ret.mb = 1024 /\ ~ret.err

\* C30: within an iteration the steps come in the order install, PID,
\* container directory, invocation, export, count, each one entered only
\* from the one before it and only when that one succeeded (export and count
\* only after an invocation without error), and a memory poll is taken only
\* at the top of the loop, which is reached only from the start of the run or
\* from the sleep that ends an iteration.
C30_StepsInOrder ==
    [][(pc' # pc) =>
          /\ pc' \in {"probe", "installCmd"} =>
                 (pc \in {"install", "installOnly", "probe"} /\ pid = 0)
          /\ pc' = "getPID" =>
                 (pc \in {"probe", "installCmd"} /\ reason' # "install" /\ clean' = clean)
          /\ pc' = "mkdirContainer" => (pc = "getPID" /\ pid' # 0)
          /\ pc' = "createDump" => (pc = "mkdirContainer" /\ clean' = clean)
          /\ pc' \in InvokePcs \ {"createDump"} => pc \in InvokePcs
          /\ pc' = "export" => (pc \in InvokePcs /\ ~err')
          /\ pc' = "count" => pc = "export"
          /\ dumpCounter' # dumpCounter => pc = "count"
          /\ pc' = "install" => (pc = "loop" /\ polls' = polls + 1)
          /\ polls' # polls => pc = "loop"
          /\ pc' = "loop" => pc \in {"startup", "sleep"}
          /\ pc' = "sleep" => pc \in {"loop", "count"} \cup InvokePcs]_vars

C30_Witness ==
    /\ pc = "loop" /\ polls = 1 /\ dumpCounter = 1 /\ dumpsCount = 2
    /\ did = {"install", "pid", "mkdir", "invoke", "export", "count"}

\* C31: a dump-tool command (procdump, dotnet-dump collect, the dotMemory
\* attach and each of its retries) is issued only while the container's dump
\* directory has been created and not removed since. The run has the default
\* -dumpdir-container, the path of lines 168 and 346.
\* Refuted: after the retry loop's rm -rf the attach is issued again with
\* nothing having created the directory.
C31_DumpCommandsInCreatedDir ==
    (\/ pc \in {"collect", "attach", "reattach"}
     \/ (pc = "createDump" /\ dumpTool = "procdump")) => dirCreated

\* C32 as stated: while the loop runs the dump directory is cleared only in
\* a dotMemory cycle and only on an output that carries "Non-writeable path".
\* Refuted by an output with "unrecognized address" and "-writeable path"
\* that does not carry the capital-N marker: the loop is entered on the
\* first marker and line 343 tests the shorter one.
C32_ClearedOnlyOnNonWriteable ==
    pc = "rmDir" => (dumpTool = "dotMemory" /\ "nonw" \in output)

\* C32, amended: while the loop runs the dump directory is cleared only by
\* the retry path of a dotMemory cycle, on a retried output that carries
\* "-writeable path" (every "Non-writeable path" output does); a retry whose
\* output has only "unrecognized address" or "Object reference not set ..."
\* never clears it, and procdump and dotnet-dump cycles never clear it.
C32_ClearedOnlyOnWriteablePath ==
    [][/\ (pc' = "rmDir" /\ pc # "rmDir") =>
            /\ dumpTool = "dotMemory"
            /\ pc \in {"attach", "cooldown"}
            /\ "dashw" \in output'
            /\ output' \cap {"unrec", "objref", "nonw"} # {}
            /\ retryCount' < maxRetries
       /\ (dirCreated /\ ~dirCreated' /\ pc \notin ExitPcs) =>
            (pc = "rmDir" /\ dumpTool = "dotMemory" /\ "dashw" \in output)
       /\ (pc \in {"attach", "cooldown"} /\ "dashw" \notin output') => pc' # "rmDir"
      ]_vars

\* A retry on "unrecognized address" alone has gone by with the directory in
\* place, and a "Non-writeable path" output has had it cleared.
C32_Witness ==
    /\ pc = "reattach"
    /\ dumpTool = "dotMemory"
    /\ output = {"nonw", "dashw"}
    /\ retryCount = 1
    /\ ~dirCreated

\* C33: between two consecutive attach commands of a cycle a wait of 2 s
\* elapses, the first retry included: the re-issue becomes the next command
\* only out of a wait (the cooldown of line 356, or the sleep of line 347
\* that follows the rm -rf).
\* Refuted: the cooldown is the last statement of the loop body, so on
\* "unrecognized address" or "Object reference not set ..." the first
\* retry follows the first attach at once.
C33_WaitBeforeEachRetry ==
    [][(pc' = "reattach" /\ pc # "reattach") => pc \in {"cooldown", "rmDir"}]_vars

C35_PathInjective ==
    (arg.fn = "name" /\ ret # NoCall) =>
        /\ ret.a = arg.dirC \o
              <<"/", "core_" \o ToString(arg.pidA) \o "_" \o ToString(arg.nowA) \o ".dmp">>
        /\ ret.a = ret.b => (arg.pidA = arg.pidB /\ arg.nowA = arg.nowB)
        /\ (arg.pidA = arg.pidB /\ arg.nowA = arg.nowB) => ret.a = ret.b

\* Pid 1 at second 11 and pid 11 at second 1: the digits agree, the paths
\* do not.
C35_Witness ==
    /\ arg.fn = "name"
    /\ ret # NoCall
    /\ arg.pidA = 1 /\ arg.nowA = 11
    /\ arg.pidB = 11 /\ arg.nowB = 1
    /\ ret.a # ret.b

\* C36: every return of the outer loop to polling comes out of one sleep of
\* the check interval: the loop is re-entered only from the sleep, and when
\* the next sample is taken there have been exactly as many sleeps as
\* samples before it, whichever path each iteration took.
C36_OneSleepPerIteration ==
    [][/\ (pc' = "loop" /\ pc # "loop") => pc \in {"startup", "sleep"}
       /\ (pc' = "loop" /\ pc = "sleep") => sleeps' = sleeps + 1
       /\ polls' # polls => (polls' = polls + 1 /\ sleeps = polls /\ sleeps' = sleeps)
       /\ sleeps' # sleeps => (sleeps' = sleeps + 1 /\ polls = sleeps + 1 /\ pc = "sleep")
      ]_vars

\* Back at the top of the loop after a counted dump and a failed iteration,
\* each followed by its sleep.
C36_Witness ==
    /\ pc = "loop"
    /\ polls = 2
    /\ sleeps = 2
    /\ dumpCounter = 1
    /\ ~clean

\* C37: when the outer loop's memory sample fails, no dump cycle is started
\* in that iteration and dumpsCompleted is unchanged: the run returns if
\* continuous mode is off, and otherwise sleeps the check interval and
\* polls again; the 0 % that comes with the error is never compared with
\* the threshold.
C37_FailedSampleEndsIteration ==
    [][(pc = "loop" /\ polls' = polls + 1 /\ err') =>
          /\ pc' # "install"
          /\ pc' = (IF monitor THEN "sleep"
                               ELSE IF cleanup THEN "killProcess" ELSE "closeIdle")
          /\ dumpCounter' = dumpCounter
          /\ did' = did
          /\ pid' = pid /\ cmd' = cmd /\ exportsTried' = exportsTried
          /\ sleeps' = sleeps
      ]_vars

\* Continuous mode under a threshold of 0: the first sample failed, the
\* loop slept and is polling again with nothing started.
C37_Witness ==
    /\ pc = "loop"
    /\ monitor
    /\ thresholdValue = F(0)
    /\ firstSample = "error"
    /\ polls = 1
    /\ sleeps = 1
    /\ did = {}
    /\ dumpCounter = 0

\* C38: for a dump-tool name outside procdump, dotnet-dump and dotMemory the
\* install step returns an error without a command in the container (no
\* probe, no install command), and a breaching iteration ends the run there:
\* no PID resolution, no directory creation, no tool invocation (the dump
\* step is never reached), no export and no count.
C38_UnsupportedToolEndsRun ==
    [][dumpTool \notin {"procdump", "dotnet-dump", "dotMemory"} =>
          /\ probe' = NoProbe
          /\ cmd' = NoCmd
          /\ pid' = 0
          /\ ~dirCreated'
          /\ did' \subseteq {"install"}
          /\ exportsTried' = 0
          /\ dumpCounter' = 0
          /\ pc' \notin {"installCmd", "getPID", "mkdirContainer", "export", "count"}
          /\ pc' \notin InvokePcs
          /\ (pc = "probe" /\ pc' # pc) =>
                /\ ~clean'
                /\ pc' = (IF installOnly THEN "exited" ELSE "sleepReturn")
                /\ reason' = (IF installOnly THEN "installOnly" ELSE "install")
          /\ (pc = "sleepReturn" /\ pc' # pc) => pc' \in ExitPcs
          /\ pc \in ExitPcs => (pc' \in ExitPcs /\ polls' = polls)
      ]_vars

\* A run with an unknown tool has breached, failed in the install step and
\* ended, with nothing done in the container.
C38_Witness ==
    /\ dumpTool = "gcore"
    /\ ~installOnly
    /\ pc = "done"
    /\ reason = "install"
    /\ did = {"install"}
    /\ probe = NoProbe
    /\ pid = 0
    /\ dumpCounter = 0
====
